---- MODULE Spec2Model ----
(***************************************************************************)
(* Model of the skill-repository manager form (RepoManagerPanel.tsx and    *)
(* RepoManager.tsx, which share the same logic): the URL parser, the       *)
(* package-link validation, the skill counter and the submit handlers      *)
(* with their asynchronous add call.                                       *)
(*                                                                         *)
(* A string is a sequence of one-character strings, so that trimming,      *)
(* prefix and suffix stripping and splitting are computed, not assumed.    *)
(***************************************************************************)
EXTENDS Integers, Sequences, FiniteSets, TLC

VARIABLES
    repoUrl, branch, zipName, zipUrl, error, repoType,  \* the six useState cells
    calls,        \* the external add calls in flight, oldest first
    settled,      \* history: the add call that settled last and how
    fresh,        \* history: a tab was chosen and nothing submitted on it yet
    opens,        \* the external openExternal calls in flight, oldest first
    opened,       \* history: the handleOpenRepo call that finished last and how
    url, parsed,  \* parser harness: input and result of parseRepoUrl
    repo, skills, count \* counter harness: inputs and result of getSkillCount

vars == <<repoUrl, branch, zipName, zipUrl, error, repoType, calls, settled,
          fresh, opens, opened, url, parsed, repo, skills, count>>

formVars == <<repoUrl, branch, zipName, zipUrl, error, repoType, calls, settled,
             fresh>>
parseVars == <<url, parsed>>
countVars == <<repo, skills, count>>
openVars == <<opens, opened>>

----------------------------------------------------------------------------
(* Bounds *)

\* longest token sequence a parser input is built from
MaxTokens == 5
\* most skills in the list handed to getSkillCount
MaxSkills == 2
\* most external add calls in flight at once
MaxCalls == 2
\* most external open calls in flight at once
MaxOpens == 2

----------------------------------------------------------------------------
(* Strings *)

\* JavaScript null (in place of a record) and undefined (in place of a string)
Null == [null |-> TRUE]
Undefined == <<"undefined">>

EmptyStr == << >>

IsWhite(c) == c \in {" ", "\t"}

RECURSIVE TrimStart(_)
TrimStart(s) ==
    IF s # << >> /\ IsWhite(Head(s)) THEN TrimStart(Tail(s)) ELSE s

RECURSIVE TrimEnd(_)
TrimEnd(s) ==
    IF s # << >> /\ IsWhite(s[Len(s)]) THEN TrimEnd(SubSeq(s, 1, Len(s) - 1)) ELSE s

\* the string spelled by a sequence of tokens
RECURSIVE Flatten(_)
Flatten(ts) == IF ts = << >> THEN << >> ELSE Head(ts) \o Flatten(Tail(ts))

\* String.prototype.trim
Trim(s) == TrimEnd(TrimStart(s))

StartsWith(s, p) == Len(s) >= Len(p) /\ SubSeq(s, 1, Len(p)) = p

EndsWith(s, p) == Len(s) >= Len(p) /\ SubSeq(s, Len(s) - Len(p) + 1, Len(s)) = p

HttpsGithub ==
    <<"h","t","t","p","s",":","/","/","g","i","t","h","u","b",".","c","o","m","/">>

HttpGithub ==
    <<"h","t","t","p",":","/","/","g","i","t","h","u","b",".","c","o","m","/">>

DotGit == <<".","g","i","t">>

\* cleaned.replace(/^https?:\/\/github\.com\//, "")
StripGithubPrefix(s) ==
    IF StartsWith(s, HttpsGithub) THEN SubSeq(s, Len(HttpsGithub) + 1, Len(s))
    ELSE IF StartsWith(s, HttpGithub) THEN SubSeq(s, Len(HttpGithub) + 1, Len(s))
    ELSE s

\* cleaned.replace(/\.git$/, "")
StripGitSuffix(s) ==
    IF EndsWith(s, DotGit) THEN SubSeq(s, 1, Len(s) - Len(DotGit)) ELSE s

\* index of the first "/" of s, 0 when there is none
RECURSIVE FirstSlash(_, _)
FirstSlash(s, i) ==
    IF i > Len(s) THEN 0
    ELSE IF s[i] = "/" THEN i
    ELSE FirstSlash(s, i + 1)

\* cleaned.split("/"): n separators give n + 1 parts, "" gives [""]
RECURSIVE SplitSlash(_)
SplitSlash(s) ==
    LET i == FirstSlash(s, 1) IN
    IF i = 0 THEN <<s>>
    ELSE <<SubSeq(s, 1, i - 1)>> \o SplitSlash(SubSeq(s, i + 1, Len(s)))

\* the three assignments to `cleaned`
cleanRepoUrl(u) == StripGitSuffix(StripGithubPrefix(Trim(u)))

\* faulty variant: the trailing ".git" is not stripped
parseRepoUrlKeepGit(u) ==
    LET parts == SplitSlash(StripGithubPrefix(Trim(u)))
    IN IF Len(parts) = 2 /\ parts[1] # EmptyStr /\ parts[2] # EmptyStr
       THEN [owner |-> parts[1], name |-> parts[2]]
       ELSE Null

\* faulty variant: extra path components are tolerated
parseRepoUrlLoose(u) ==
    LET parts == SplitSlash(cleanRepoUrl(u))
    IN IF Len(parts) >= 2 /\ parts[1] # EmptyStr /\ parts[2] # EmptyStr
       THEN [owner |-> parts[1], name |-> parts[2]]
       ELSE Null

parseRepoUrl(u) ==
    LET parts == SplitSlash(cleanRepoUrl(u))
    IN IF Len(parts) = 2 /\ parts[1] # EmptyStr /\ parts[2] # EmptyStr
       THEN [owner |-> parts[1], name |-> parts[2]]
       ELSE Null

----------------------------------------------------------------------------
(* Skill counter *)

Main == <<"m","a","i","n">>

\* x || d on a string that may be undefined: the empty string is falsy too
OrElse(x, d) == IF x = Undefined \/ x = EmptyStr THEN d ELSE x

\* faulty variant: the branches are compared as recorded, without the "main" default
getSkillCountRawBranch(r, ss) ==
    IF r.repoType = "zip"
    THEN Len(SelectSeq(ss, LAMBDA skill : skill.repoName = r.name))
    ELSE Len(SelectSeq(ss, LAMBDA skill :
                /\ skill.repoOwner = r.owner
                /\ skill.repoName = r.name
                /\ skill.repoBranch = r.branch))

getSkillCount(r, ss) ==
    IF r.repoType = "zip"
    THEN Len(SelectSeq(ss, LAMBDA skill : skill.repoName = r.name))
    ELSE Len(SelectSeq(ss, LAMBDA skill :
                /\ skill.repoOwner = r.owner
                /\ skill.repoName = r.name
                /\ OrElse(skill.repoBranch, Main) = OrElse(r.branch, Main)))

----------------------------------------------------------------------------
(* new URL(s): whether the URL constructor accepts s without a base.  The   *)
(* inputs of the model carry no IPv6 literal and no percent escape.        *)

Alpha ==
    {"a","b","c","d","e","f","g","h","i","j","k","l","m",
     "n","o","p","q","r","s","t","u","v","w","x","y","z",
     "A","B","C","D","E","F","G","H","I","J","K","L","M",
     "N","O","P","Q","R","S","T","U","V","W","X","Y","Z"}

Digit == {"0","1","2","3","4","5","6","7","8","9"}

SchemeChar == Alpha \cup Digit \cup {"+", "-", "."}

\* schemes whose URLs must name a host
SpecialSchemes ==
    {<<"h","t","t","p">>, <<"h","t","t","p","s">>, <<"f","t","p">>,
     <<"w","s">>, <<"w","s","s">>}

ForbiddenHostChar == {" ", "#", "/", ":", "<", ">", "?", "@", "[", "\\", "]", "^", "|"}

\* index of the first character of s, from i on, that is in cs; Len(s) + 1 if none
RECURSIVE FirstOf(_, _, _)
FirstOf(s, cs, i) ==
    IF i > Len(s) THEN Len(s) + 1
    ELSE IF s[i] \in cs THEN i
    ELSE FirstOf(s, cs, i + 1)

\* index of the last character of s that is in cs; 0 if none
RECURSIVE LastOf(_, _, _)
LastOf(s, cs, i) ==
    IF i < 1 THEN 0
    ELSE IF s[i] \in cs THEN i
    ELSE LastOf(s, cs, i - 1)

RECURSIVE DropWhile(_, _)
DropWhile(s, cs) ==
    IF s # << >> /\ Head(s) \in cs THEN DropWhile(Tail(s), cs) ELSE s

\* userinfo@host:port, as the authority state reads it
AuthorityOk(auth, hostRequired) ==
    LET at == LastOf(auth, {"@"}, Len(auth))
        hostport == SubSeq(auth, at + 1, Len(auth))
        colon == FirstOf(hostport, {":"}, 1)
        host == SubSeq(hostport, 1, colon - 1)
        port == SubSeq(hostport, colon + 1, Len(hostport))
    IN /\ hostRequired => host # << >>
       /\ (at > 0 \/ colon <= Len(hostport)) => host # << >>
       /\ \A i \in 1..Len(host) : host[i] \notin ForbiddenHostChar
       /\ \A i \in 1..Len(port) : port[i] \in Digit
       /\ Len(port) <= 4

NewUrlOk(raw) ==
    LET s == SelectSeq(Trim(raw), LAMBDA c : c # "\t")
        colon == FirstOf(s, {":"}, 1)
        scheme == SubSeq(s, 1, colon - 1)
        rest == SubSeq(s, colon + 1, Len(s))
    IN /\ colon <= Len(s)
       /\ scheme # << >>
       /\ scheme[1] \in Alpha
       /\ \A i \in 1..Len(scheme) : scheme[i] \in SchemeChar
       /\ IF scheme \in SpecialSchemes
          THEN LET r == DropWhile(rest, {"/", "\\"})
                   auth == SubSeq(r, 1, FirstOf(r, {"/", "\\", "?", "#"}, 1) - 1)
               IN AuthorityOk(auth, TRUE)
          ELSE IF StartsWith(rest, <<"/", "/">>)
          THEN LET r == SubSeq(rest, 3, Len(rest))
                   auth == SubSeq(r, 1, FirstOf(r, {"/", "?", "#"}, 1) - 1)
               IN AuthorityOk(auth, FALSE)
          ELSE TRUE

----------------------------------------------------------------------------
(* The form: six state cells, the two submit handlers, the tab switch, the *)
(* field edits, and the resolution of each add call by its caller.         *)

\* a harness result not computed yet; a computed result r is held as <<r>>
Pending == << >>

\* values the harnesses and the form hold while another specification runs
IdleForm ==
    /\ repoUrl = EmptyStr /\ branch = EmptyStr
    /\ zipName = EmptyStr /\ zipUrl = EmptyStr
    /\ error = "" /\ repoType = "github" /\ calls = << >>
    /\ settled = Null /\ fresh = FALSE

IdleParse == url = EmptyStr /\ parsed = Pending

IdleCount == repo = Null /\ skills = << >> /\ count = Pending

IdleOpen == opens = << >> /\ opened = Null

\* t(key): a translated text is modelled by its key
InvalidUrlText == "skills.repo.invalidUrl"
NameRequiredText == "skills.repo.nameRequired"
ZipUrlRequiredText == "skills.repo.zipUrlRequired"
InvalidZipUrlText == "skills.repo.invalidZipUrl"
AddFailedText == "skills.repo.addFailed"

\* what onAdd may reject with: an Error with a message, an Error with an
\* empty message, a value that is not an Error (a string, a plain object)
Rejections ==
    {[isError |-> TRUE, message |-> "boom"],
     [isError |-> TRUE, message |-> ""],
     [isError |-> FALSE, message |-> "boom"]}

\* e instanceof Error ? e.message : t("skills.repo.addFailed")
rejectionText(e) == IF e.isError THEN e.message ELSE AddFailedText

\* the argument of onAdd in handleAddGithub
githubRepo(p, br) ==
    [owner |-> p.owner, name |-> p.name, branch |-> OrElse(br, Main),
     enabled |-> TRUE, repoType |-> "github", zipUrl |-> Undefined]

\* faulty variant: the name and the link are passed as typed
zipRepoUntrimmed(n, u) ==
    [owner |-> <<"z","i","p">>, name |-> n, branch |-> EmptyStr,
     enabled |-> TRUE, repoType |-> "zip", zipUrl |-> u]

\* the argument of onAdd in handleAddZip
zipRepo(n, u) ==
    [owner |-> <<"z","i","p">>, name |-> Trim(n), branch |-> EmptyStr,
     enabled |-> TRUE, repoType |-> "zip", zipUrl |-> Trim(u)]

\* faulty variant: the link is checked before the name
zipErrorUrlFirst(n, u) ==
    IF Trim(u) = EmptyStr THEN ZipUrlRequiredText
    ELSE IF Trim(n) = EmptyStr THEN NameRequiredText
    ELSE IF ~NewUrlOk(Trim(u)) THEN InvalidZipUrlText
    ELSE ""

\* the checks of handleAddZip, in order: the error text, or "" when all pass
zipError(n, u) ==
    IF Trim(n) = EmptyStr THEN NameRequiredText
    ELSE IF Trim(u) = EmptyStr THEN ZipUrlRequiredText
    ELSE IF ~NewUrlOk(Trim(u)) THEN InvalidZipUrlText
    ELSE ""

\* a started call: its argument and, as history, the field values submitted
Call(r) ==
    [ref |-> r,
     from |-> IF r.repoType = "github" THEN <<repoUrl, branch>>
              ELSE <<zipName, zipUrl>>]

\* onAdd(r): the call is started and its promise is pending
onAdd(r) ==
    /\ Len(calls) < MaxCalls
    /\ calls' = Append(calls, Call(r))

\* calls without its i-th element
Without(cs, i) == SubSeq(cs, 1, i - 1) \o SubSeq(cs, i + 1, Len(cs))

\* faulty variant: the return after setError is missing, the add goes ahead
handleAddGithubNoReturn ==
    /\ repoType = "github"
    /\ LET p == parseRepoUrl(repoUrl) IN
       IF p = Null
       THEN /\ error' = InvalidUrlText
            /\ onAdd(githubRepo([owner |-> EmptyStr, name |-> EmptyStr], branch))
       ELSE /\ error' = ""
            /\ onAdd(githubRepo(p, branch))
    /\ fresh' = FALSE
    /\ UNCHANGED <<repoUrl, branch, zipName, zipUrl, repoType, settled>>

\* faulty variant: the fields are cleared when the add is started
handleAddGithubOptimistic ==
    /\ repoType = "github"
    /\ LET p == parseRepoUrl(repoUrl) IN
       IF p = Null
       THEN /\ error' = InvalidUrlText
            /\ UNCHANGED <<calls, repoUrl, branch>>
       ELSE /\ error' = ""
            /\ onAdd(githubRepo(p, branch))
            /\ repoUrl' = EmptyStr
            /\ branch' = EmptyStr
    /\ fresh' = FALSE
    /\ UNCHANGED <<zipName, zipUrl, repoType, settled>>

handleAddGithub ==
    /\ repoType = "github"
    /\ LET p == parseRepoUrl(repoUrl) IN
       IF p = Null
       THEN /\ error' = InvalidUrlText
            /\ UNCHANGED calls
       ELSE /\ error' = ""
            /\ onAdd(githubRepo(p, branch))
    /\ fresh' = FALSE
    /\ UNCHANGED <<repoUrl, branch, zipName, zipUrl, repoType, settled>>

handleAddZip ==
    /\ repoType = "zip"
    /\ IF zipError(zipName, zipUrl) # ""
       THEN /\ error' = zipError(zipName, zipUrl)
            /\ UNCHANGED calls
       ELSE /\ error' = ""
            /\ onAdd(zipRepo(zipName, zipUrl))
    /\ fresh' = FALSE
    /\ UNCHANGED <<repoUrl, branch, zipName, zipUrl, repoType, settled>>

\* call i resolves: its .then callback runs
addResolved(i) ==
    /\ i \in 1..Len(calls)
    /\ calls' = Without(calls, i)
    /\ settled' = [repoType |-> calls[i].ref.repoType, outcome |-> "resolved"]
    /\ IF calls[i].ref.repoType = "github"
       THEN /\ repoUrl' = EmptyStr
            /\ branch' = EmptyStr
            /\ UNCHANGED <<zipName, zipUrl>>
       ELSE /\ zipName' = EmptyStr
            /\ zipUrl' = EmptyStr
            /\ UNCHANGED <<repoUrl, branch>>
    /\ UNCHANGED <<error, repoType, fresh>>

\* call i rejects with e: its .catch callback runs
addRejected(i, e) ==
    /\ i \in 1..Len(calls)
    /\ calls' = Without(calls, i)
    /\ settled' = [repoType |-> calls[i].ref.repoType, outcome |-> "rejected",
                   reason |-> e]
    /\ error' = rejectionText(e)
    /\ UNCHANGED <<repoUrl, branch, zipName, zipUrl, repoType, fresh>>

\* Tabs onValueChange(v), raised when another tab is chosen
onValueChange(v) ==
    /\ v # repoType
    /\ repoType' = v
    /\ error' = ""
    /\ fresh' = TRUE
    /\ UNCHANGED <<repoUrl, branch, zipName, zipUrl, calls, settled>>

\* the onChange handlers of the four inputs; an input is rendered on its tab
setRepoUrl(v) ==
    /\ repoType = "github"
    /\ repoUrl' = v
    /\ UNCHANGED <<branch, zipName, zipUrl, error, repoType, calls, settled, fresh>>

setBranch(v) ==
    /\ repoType = "github"
    /\ branch' = v
    /\ UNCHANGED <<repoUrl, zipName, zipUrl, error, repoType, calls, settled, fresh>>

setZipName(v) ==
    /\ repoType = "zip"
    /\ zipName' = v
    /\ UNCHANGED <<repoUrl, branch, zipUrl, error, repoType, calls, settled, fresh>>

setZipUrl(v) ==
    /\ repoType = "zip"
    /\ zipUrl' = v
    /\ UNCHANGED <<repoUrl, branch, zipName, error, repoType, calls, settled, fresh>>

\* what the user types into each input
RepoUrlInputs ==
    {EmptyStr, <<"a","/">>,
     <<" ">> \o HttpsGithub \o <<"o","/","n">> \o DotGit \o <<" ">>}
BranchInputs == {EmptyStr, <<" ">>, <<"d","e","v">>}
ZipNameInputs == {EmptyStr, <<" ","p"," ">>}
ZipUrlInputs == {EmptyStr, <<"x"," ","y">>, <<" ","x",":","y"," ">>}

Init == IdleForm /\ IdleParse /\ IdleCount /\ IdleOpen

Next ==
    \/ handleAddGithub /\ UNCHANGED <<parseVars, countVars, openVars>>
    \/ handleAddZip /\ UNCHANGED <<parseVars, countVars, openVars>>
    \/ \E i \in 1..Len(calls) : addResolved(i) /\ UNCHANGED <<parseVars, countVars, openVars>>
    \/ \E i \in 1..Len(calls), e \in Rejections :
          addRejected(i, e) /\ UNCHANGED <<parseVars, countVars, openVars>>
    \/ \E v \in {"github", "zip"} : onValueChange(v) /\ UNCHANGED <<parseVars, countVars, openVars>>
    \/ \E v \in RepoUrlInputs : setRepoUrl(v) /\ UNCHANGED <<parseVars, countVars, openVars>>
    \/ \E v \in BranchInputs : setBranch(v) /\ UNCHANGED <<parseVars, countVars, openVars>>
    \/ \E v \in ZipNameInputs : setZipName(v) /\ UNCHANGED <<parseVars, countVars, openVars>>
    \/ \E v \in ZipUrlInputs : setZipUrl(v) /\ UNCHANGED <<parseVars, countVars, openVars>>

Spec == Init /\ [][Next]_vars

----------------------------------------------------------------------------
(* Opening a repository of the list in the external viewer.               *)

\* a string that is neither undefined nor empty
Truthy(x) == x # Undefined /\ x # EmptyStr

\* the URL handleOpenRepo asks the viewer to open
openUrl(r) ==
    IF r.repoType = "zip" /\ Truthy(r.zipUrl)
    THEN r.zipUrl
    ELSE HttpsGithub \o r.owner \o <<"/">> \o r.name

\* handleOpenRepo(r) up to its await: settingsApi.openExternal is called
handleOpenRepo(r) ==
    /\ Len(opens) < MaxOpens
    /\ opens' = Append(opens, [url |-> openUrl(r)])
    /\ UNCHANGED <<opened, formVars>>

\* open call i resolves: handleOpenRepo returns
openResolved(i) ==
    /\ i \in 1..Len(opens)
    /\ opens' = Without(opens, i)
    /\ opened' = [url |-> opens[i].url, external |-> "resolved",
                  promise |-> "fulfilled", logged |-> FALSE]
    /\ UNCHANGED formVars

\* faulty variant: the failure is shown like an add failure
openRejectedShown(i, e) ==
    /\ i \in 1..Len(opens)
    /\ opens' = Without(opens, i)
    /\ opened' = [url |-> opens[i].url, external |-> "rejected",
                  promise |-> "fulfilled", logged |-> TRUE]
    /\ error' = rejectionText(e)
    /\ UNCHANGED <<repoUrl, branch, zipName, zipUrl, repoType, calls, settled, fresh>>

\* open call i rejects with e: the catch block logs it, handleOpenRepo returns
openRejected(i, e) ==
    /\ i \in 1..Len(opens)
    /\ opens' = Without(opens, i)
    /\ opened' = [url |-> opens[i].url, external |-> "rejected",
                  promise |-> "fulfilled", logged |-> TRUE]
    /\ UNCHANGED formVars

\* the rows of the repository list: a github repository, a package link, and
\* a package link recorded without its URL
OpenRepos ==
    {[owner |-> <<"o">>, name |-> <<"n">>, repoType |-> "github", zipUrl |-> Undefined],
     [owner |-> <<"z","i","p">>, name |-> <<"p">>, repoType |-> "zip",
      zipUrl |-> <<"x",":","y">>],
     [owner |-> <<"z","i","p">>, name |-> <<"q">>, repoType |-> "zip",
      zipUrl |-> EmptyStr]}

\* the form as a refused submit and further typing leave it, on either tab
OpenInit ==
    /\ repoType \in {"github", "zip"}
    /\ repoUrl \in RepoUrlInputs /\ branch \in BranchInputs
    /\ zipName \in ZipNameInputs /\ zipUrl \in ZipUrlInputs
    /\ error \in IF repoType = "github"
                 THEN {"", InvalidUrlText}
                 ELSE {"", NameRequiredText, ZipUrlRequiredText, InvalidZipUrlText}
    /\ calls = << >> /\ settled = Null
    /\ fresh = (error = "" /\ repoType = "zip")
    /\ IdleOpen /\ IdleParse /\ IdleCount

OpenNext ==
    \/ \E r \in OpenRepos : handleOpenRepo(r) /\ UNCHANGED <<parseVars, countVars>>
    \/ \E i \in 1..Len(opens) : openResolved(i) /\ UNCHANGED <<parseVars, countVars>>
    \/ \E i \in 1..Len(opens), e \in Rejections :
          openRejected(i, e) /\ UNCHANGED <<parseVars, countVars>>

SpecOpen == OpenInit /\ [][OpenNext]_vars

----------------------------------------------------------------------------
(* Validation harness: handleAddZip pressed once on every name of at most  *)
(* two tokens and every link of at most MaxTokens tokens.                  *)

ZipNameTokens == {<<"p">>, <<" ">>}
ZipUrlTokens == {<<"x",":">>, <<"h","t","t","p",":">>, <<"/">>, <<"h">>, <<" ">>}

ZipNames == {Flatten(ts) : ts \in UNION {[1..k -> ZipNameTokens] : k \in 0..2}}
ZipUrls == {Flatten(ts) : ts \in UNION {[1..k -> ZipUrlTokens] : k \in 0..MaxTokens}}

ZipInit ==
    /\ zipName \in ZipNames
    /\ zipUrl \in ZipUrls
    /\ repoUrl = EmptyStr /\ branch = EmptyStr
    /\ error = "" /\ repoType = "zip" /\ calls = << >> /\ settled = Null
    /\ fresh = TRUE
    /\ IdleParse /\ IdleCount /\ IdleOpen

\* the add button has been pressed
Submitted == error # "" \/ calls # << >>

ZipNext == ~Submitted /\ handleAddZip /\ UNCHANGED <<parseVars, countVars, openVars>>

SpecZip == ZipInit /\ [][ZipNext]_vars

----------------------------------------------------------------------------
(* Parser harness: parseRepoUrl applied to every input built from at most  *)
(* MaxTokens tokens, behind an optional github prefix.                     *)

Tokens == {<<"a">>, <<"/">>, <<" ">>, DotGit}

TokenSeqs(n) == UNION {[1..k -> Tokens] : k \in 0..n}

Bodies == {Flatten(ts) : ts \in TokenSeqs(MaxTokens)}

ParseInputs == {p \o b : p \in {EmptyStr, HttpsGithub, HttpGithub}, b \in Bodies}

ParseInit ==
    /\ url \in ParseInputs
    /\ parsed = Pending
    /\ IdleForm /\ IdleCount /\ IdleOpen

\* one call of parseRepoUrl(url)
ParseCall ==
    /\ parsed = Pending
    /\ parsed' = <<parseRepoUrl(url)>>
    /\ UNCHANGED <<url, formVars, countVars, openVars>>

ParseNext == ParseCall

SpecParse == ParseInit /\ [][ParseNext]_vars

----------------------------------------------------------------------------
(* Counter harness: getSkillCount applied to every repository and every    *)
(* list of at most MaxSkills skills over two owners, two names and four    *)
(* branch values.                                                          *)

Owners == {<<"a">>, <<"z","i","p">>}
RepoNames == {<<"b">>, <<"c">>}
Branches == {Undefined, EmptyStr, Main, <<"d","e","v">>}

Repos == [owner : Owners, name : RepoNames, branch : Branches,
          repoType : {"github", "zip"}]

Skills == [repoOwner : Owners, repoName : RepoNames, repoBranch : Branches]

SkillLists == UNION {[1..k -> Skills] : k \in 0..MaxSkills}

CountInit ==
    /\ repo \in Repos
    /\ skills \in SkillLists
    /\ count = Pending
    /\ IdleForm /\ IdleParse /\ IdleOpen

\* one call of getSkillCount(repo) with the skills prop
CountCall ==
    /\ count = Pending
    /\ count' = <<getSkillCount(repo, skills)>>
    /\ UNCHANGED <<repo, skills, formVars, parseVars, openVars>>

CountNext == CountCall

SpecCount == CountInit /\ [][CountNext]_vars

----------------------------------------------------------------------------
(* Claims about the parser *)

\* non-empty, slash-free strings of one or two tokens
Names == {Flatten(ts) : ts \in UNION {[1..k -> Tokens \ {<<"/">>}] : k \in 1..2}}

\* the three spellings of a repository: full URL, owner/name, URL ending in .git
RepoForm(k, o, n) ==
    CASE k = 1 -> HttpsGithub \o o \o <<"/">> \o n
      [] k = 2 -> o \o <<"/">> \o n
      [] k = 3 -> HttpsGithub \o o \o <<"/">> \o n \o DotGit

\* the spelling gives the parser back what was put in
ParsesTo(k, o, n) ==
    url = RepoForm(k, o, n) => parsed = <<[owner |-> o, name |-> n]>>

\* the names each spelling carries through unchanged
Carried(k, o, n) ==
    \/ k = 3
    \/ /\ ~IsWhite(n[Len(n)])
       /\ ~EndsWith(n, DotGit)
       /\ k = 2 => ~IsWhite(o[1])

\* C6 as stated: for all non-empty slash-free OWNER and NAME, each of the three
\* spellings parses to exactly {owner: OWNER, name: NAME}.
C6_AllNamesRoundTrip ==
    parsed # Pending =>
        \A o \in Names, n \in Names, k \in 1..3 : ParsesTo(k, o, n)

\* C6 amended: the .git spelling parses to {OWNER, NAME} for all non-empty
\* slash-free names; the other two do so when NAME does not end in whitespace
\* or in ".git" and, for the bare OWNER/NAME spelling, OWNER does not start
\* with whitespace.
C6_CarriedNamesRoundTrip ==
    parsed # Pending =>
        \A o \in Names, n \in Names, k \in 1..3 :
            Carried(k, o, n) => ParsesTo(k, o, n)

\* a bare owner/name spelling with a two-token name has been parsed to its names
C6_Witness ==
    /\ parsed # Pending
    /\ \E o \in Names, n \in Names :
          /\ Len(n) > 1 /\ Carried(2, o, n)
          /\ url = RepoForm(2, o, n)
          /\ parsed = <<[owner |-> o, name |-> n]>>

SlashCount(s) == Cardinality({i \in 1..Len(s) : s[i] = "/"})

\* exactly two non-empty segments: one separator, at neither end
TwoSegments(s) ==
    /\ SlashCount(s) = 1
    /\ s[1] # "/"
    /\ s[Len(s)] # "/"

\* C7: parseRepoUrl succeeds only if the cleaned input splits on "/" into
\* exactly two non-empty segments, which it returns in order; every input whose
\* cleaned form has one segment, more than two, or an empty one gives null.
C7_TwoSegmentsOrNull ==
    parsed # Pending =>
        LET c == cleanRepoUrl(url) IN
        IF TwoSegments(c)
        THEN /\ parsed[1] # Null
             /\ parsed[1].owner \o <<"/">> \o parsed[1].name = c
        ELSE parsed[1] = Null

\* an input with an extra path component has been refused
C7_Witness ==
    /\ parsed = <<Null>>
    /\ SlashCount(cleanRepoUrl(url)) = 2
    /\ ~EndsWith(cleanRepoUrl(url), <<"/">>)
    /\ ~StartsWith(cleanRepoUrl(url), <<"/">>)
    /\ \A part \in {SplitSlash(cleanRepoUrl(url))[i] : i \in 1..3} : part # EmptyStr

----------------------------------------------------------------------------
(* Claims about the form *)

fields == <<repoUrl, branch, zipName, zipUrl>>

\* a string with nothing but white space in it
Blank(x) == \A i \in 1..Len(x) : IsWhite(x[i])

\* the source-control URL field does not parse
GithubInvalid == ~TwoSegments(cleanRepoUrl(repoUrl))

\* the package-link fields fail a rule
ZipInvalid == Blank(zipName) \/ Blank(zipUrl) \/ ~NewUrlOk(zipUrl)

\* this step starts an external add call
AddStarted == Len(calls') > Len(calls)

\* the reference the step's new call was given
Added == calls'[Len(calls')].ref

\* this step is the success, or the failure, resolution of an add call
IsResolved == Len(calls') < Len(calls) /\ settled'.outcome = "resolved"
IsRejected == Len(calls') < Len(calls) /\ settled'.outcome = "rejected"

\* this step is the user typing into an input
IsEdit ==
    \/ \E v \in RepoUrlInputs : setRepoUrl(v)
    \/ \E v \in BranchInputs : setBranch(v)
    \/ \E v \in ZipNameInputs : setZipName(v)
    \/ \E v \in ZipUrlInputs : setZipUrl(v)

\* C1: a submit whose fields fail local validation starts no add call and
\* sets an error message; every add call is started from fields that pass
\* the validation of its kind.
C1_InvalidNeverAdded ==
    [][/\ (handleAddGithub /\ GithubInvalid) => (~AddStarted /\ error' # "")
       /\ (handleAddZip /\ ZipInvalid) => (~AddStarted /\ error' # "")
       /\ AddStarted =>
            IF Added.repoType = "github" THEN ~GithubInvalid ELSE ~ZipInvalid
      ]_vars

\* a refused source-control submit, with no add call ever started
C1_Witness ==
    /\ error = InvalidUrlText
    /\ repoUrl = <<"a","/">>
    /\ calls = << >> /\ settled = Null

\* C2: a source-control submit whose URL parses starts exactly one add call,
\* with the parsed owner and name, enabled, kind github, and the branch "main"
\* when the branch field is blank and the field's value otherwise; when the
\* call succeeds the URL and branch fields are empty.
C2_GithubSubmit ==
    [][/\ (handleAddGithub /\ ~GithubInvalid) =>
            /\ Len(calls') = Len(calls) + 1
            /\ SubSeq(calls', 1, Len(calls)) = calls
            /\ Added.owner = parseRepoUrl(repoUrl).owner
            /\ Added.name = parseRepoUrl(repoUrl).name
            /\ Added.enabled /\ Added.repoType = "github"
            /\ Added.branch = IF Blank(branch) THEN Main ELSE branch
       /\ (IsResolved /\ settled'.repoType = "github") =>
            (repoUrl' = EmptyStr /\ branch' = EmptyStr)
      ]_vars

\* the message C3 expects for a rejection value
ExpectedText(e) ==
    IF e.isError /\ e.message # "" THEN e.message ELSE AddFailedText

\* C3: when the add call fails, with an Error carrying a message, an Error
\* carrying an empty message or a value that is no Error, the form fields are
\* left as they are and the error shown is the message, or the generic
\* add-failed text when there is no message.
C3_FailureShown ==
    [][IsRejected =>
          /\ fields' = fields
          /\ error' = ExpectedText(settled'.reason)
      ]_vars

\* C4: never two add calls in flight at once.
C4_OneInFlight == Len(calls) <= 1

\* C5: every reference handed to the external add is well formed: for github,
\* owner and name are non-empty and are the two results of one successful
\* parse of the URL field; for zip, owner is "zip", branch is empty, name and
\* zipUrl are the non-empty trimmed fields and zipUrl is a well-formed URL;
\* enabled is true in both.
C5_ReferenceWellFormed ==
    [][AddStarted =>
          /\ Added.enabled
          /\ IF Added.repoType = "github"
             THEN /\ Added.owner # EmptyStr /\ Added.name # EmptyStr
                  /\ parseRepoUrl(repoUrl) # Null
                  /\ parseRepoUrl(repoUrl) = [owner |-> Added.owner, name |-> Added.name]
             ELSE /\ Added.repoType = "zip"
                  /\ Added.owner = <<"z","i","p">>
                  /\ Added.branch = EmptyStr
                  /\ Added.name = Trim(zipName) /\ Added.name # EmptyStr
                  /\ Added.zipUrl = Trim(zipUrl) /\ Added.zipUrl # EmptyStr
                  /\ ~IsWhite(Added.name[1]) /\ ~IsWhite(Added.name[Len(Added.name)])
                  /\ NewUrlOk(Added.zipUrl)
      ]_vars

\* a package-link reference is in flight, built from padded fields
C5_Witness ==
    /\ zipName = <<" ","p"," ">>
    /\ \E i \in 1..Len(calls) :
          /\ calls[i].ref.repoType = "zip"
          /\ calls[i].ref.name = <<"p">>
          /\ calls[i].ref.zipUrl = <<"x",":","y">>

\* C8: package-link validation takes the first failing rule: a blank name
\* gives NameRequired whatever the link; else a blank link gives UrlRequired;
\* else a link that is no well-formed absolute URL gives InvalidUrl; else the
\* submit goes through.  Exactly one of the four happens.
C8_FirstFailureWins ==
    Submitted =>
        IF Blank(zipName) THEN error = NameRequiredText /\ calls = << >>
        ELSE IF Blank(zipUrl) THEN error = ZipUrlRequiredText /\ calls = << >>
        ELSE IF ~NewUrlOk(zipUrl) THEN error = InvalidZipUrlText /\ calls = << >>
        ELSE error = "" /\ Len(calls) = 1

\* a blank name with a malformed link has been refused for the name
C8_Witness ==
    /\ Blank(zipName) /\ zipName # EmptyStr
    /\ ~Blank(zipUrl) /\ ~NewUrlOk(zipUrl)
    /\ error = NameRequiredText

\* the texts an add failure can show
AddFailureTexts == {rejectionText(e) : e \in Rejections} \ {""}

\* C10: the handler that starts an add call neither clears the fields nor
\* shows an add failure; a field changes only by the user's typing or by the
\* success resolution of a call, and an add failure is shown only by the
\* failure resolution of a call.
C10_NothingOptimistic ==
    [][/\ AddStarted => (fields' = fields /\ error' = "")
       /\ fields' # fields => (IsEdit \/ IsResolved)
       /\ (error' # error /\ error' \in AddFailureTexts) => IsRejected
      ]_vars

\* an add call is in flight and the fields it was built from are still there
C10_Witness ==
    /\ Len(calls) = 1
    /\ calls[1].ref.repoType = "github"
    /\ repoUrl # EmptyStr /\ parseRepoUrl(repoUrl) # Null
    /\ branch = <<"d","e","v">> /\ calls[1].ref.branch = branch
    /\ error = "" /\ settled = Null

\* the fields a call of kind k resets when it succeeds
ResetFields(k) == IF k = "github" THEN <<repoUrl, branch>> ELSE <<zipName, zipUrl>>

\* the text in fs that is not what was submitted: typed after the press
TypedSince(fs, submitted) ==
    {i \in 1..2 : fs[i] # submitted[i] /\ fs[i] # EmptyStr}

\* C12: when an add succeeds, the fields it resets hold the values that were
\* submitted (or nothing), so that text typed into them after the press is
\* never discarded.
C12_ClearsOnlySubmitted ==
    [][IsResolved =>
          \E i \in 1..Len(calls) :
              /\ calls' = Without(calls, i)
              /\ calls[i].ref.repoType = settled'.repoType
              /\ TypedSince(ResetFields(settled'.repoType), calls[i].from) = {}
      ]_vars

\* C13: the displayed error belongs to the latest action on the selected tab:
\* after a tab is chosen the error stays empty until a submit is made on that
\* tab, and when an add call succeeds the displayed error is empty.
C13_ErrorOfCurrentTab ==
    /\ [](fresh => error = "")
    /\ [][IsResolved => error' = ""]_vars

\* C11: whether openExternal succeeds or fails, handleOpenRepo finishes without
\* a failure of its own, and no step of it changes the displayed error, the
\* four form fields or the selected tab.
C11_OpenFailureSwallowed ==
    /\ [](opened # Null => opened.promise = "fulfilled")
    /\ [][<<error, repoUrl, branch, zipName, zipUrl, repoType>>'
            = <<error, repoUrl, branch, zipName, zipUrl, repoType>>]_openVars

\* an open call has failed and been logged, beside a form that shows an error
\* and holds typed text
C11_Witness ==
    /\ opened # Null
    /\ opened.external = "rejected" /\ opened.logged
    /\ error = InvalidUrlText
    /\ repoUrl # EmptyStr /\ branch # EmptyStr

----------------------------------------------------------------------------
(* Claims about the counter *)

\* the skills counted for a repository, by position in the list, when eff
\* gives the effective branch of a recorded one
Counted(r, ss, eff(_)) ==
    IF r.repoType = "zip"
    THEN {i \in 1..Len(ss) : ss[i].repoName = r.name}
    ELSE {i \in 1..Len(ss) :
            /\ ss[i].repoOwner = r.owner
            /\ ss[i].repoName = r.name
            /\ eff(ss[i].repoBranch) = eff(r.branch)}

\* "main" for a branch that is absent, the recorded branch otherwise
MainIfAbsent(b) == IF b = Undefined THEN Main ELSE b

\* "main" for a branch that is absent or the empty string
MainIfAbsentOrEmpty(b) == IF b = Undefined \/ b = EmptyStr THEN Main ELSE b

\* C9 as stated: getSkillCount is the number of skills with the repository's
\* name (zip), or with its owner, name and effective branch (source control),
\* where the effective branch is the recorded one when present and "main" when
\* absent.
C9_CountAbsentAsMain ==
    count # Pending => count[1] = Cardinality(Counted(repo, skills, MainIfAbsent))

C9_CountMatches ==
    count # Pending =>
        count[1] = Cardinality(Counted(repo, skills, MainIfAbsentOrEmpty))

\* C9 amended: as stated, with the effective branch being "main" also when the
\* recorded branch is the empty string; and the call changes neither the
\* repository nor the skill list.
C9_SkillCount ==
    /\ []C9_CountMatches
    /\ [][repo' = repo /\ skills' = skills]_vars

\* a repository with an empty branch has been counted against a skill without
\* a branch (counted) and a skill on another branch (not counted)
C9_Witness ==
    /\ count = <<1>>
    /\ repo.repoType = "github" /\ repo.branch = EmptyStr
    /\ Len(skills) = 2
    /\ skills[1].repoOwner = repo.owner /\ skills[1].repoName = repo.name
    /\ skills[1].repoBranch = Undefined
    /\ skills[2].repoOwner = repo.owner /\ skills[2].repoName = repo.name
    /\ skills[2].repoBranch = <<"d","e","v">>

====
